---- MODULE Spec2Model ----
(***************************************************************************)
(* DList<ItemType>: a doubly linked list with Python-list style positions. *)
(* Nodes live in a heap of shared_ptr-managed DListNode objects: _next is  *)
(* an owning std::shared_ptr, _prev a non-owning std::weak_ptr.  Two DList *)
(* objects exist; a client calls one public method at a time.              *)
(***************************************************************************)
EXTENDS Integers, Sequences, FiniteSets, TLC

\* ---------------------------------------------------------------- bounds
MaxNodes == 4            \* heap capacity: DListNode objects alive at once
MaxVal == 1              \* ItemType values are 0..MaxVal
IndexBits == 6           \* width of long / size_t in the model

\* ------------------------------------------------------------- constants
NULL == 0                \* nullptr
DefaultItem == 0         \* ItemType{}

Lists == {1, 2}
Nodes == 1..MaxNodes
Values == 0..MaxVal

LONG_MAX == 2^(IndexBits - 1) - 1
LONG_MIN == 0 - 2^(IndexBits - 1)
SIZE_MAX == 2^IndexBits - 1

\* long position arguments the client passes
PosInputs == {LONG_MIN, LONG_MAX} \cup ((0 - MaxNodes)..MaxNodes)
\* size_t start arguments the client passes
StartInputs == (0..MaxNodes) \cup {LONG_MAX, LONG_MAX + 1}
                 \cup ((SIZE_MAX - MaxNodes + 1)..SIZE_MAX)

VARIABLES item, next, prev, live, head, tail, size, pc, op, ext

heapvars == <<item, next, prev, live, head, tail, size>>
vars == <<item, next, prev, live, head, tail, size, pc, op, ext>>

\* the heap and the two DList objects as one value
St == [item |-> item, next |-> next, prev |-> prev, live |-> live,
       head |-> head, tail |-> tail, size |-> size]

\* ------------------------------------------------------ integer widths
\* static_cast<long>(size_t): two's complement reinterpretation
ToLong(u) == IF u > LONG_MAX THEN u - 2^IndexBits ELSE u

\* size_t arithmetic wraps
ToSizeT(v) == v % (2^IndexBits)

\* ------------------------------------------------------ smart pointers
\* a weak_ptr whose node has been destroyed
Expired == MaxNodes + 1

\* std::weak_ptr::lock on a node's _prev
Lock(s, n) == IF s.prev[n] \in s.live THEN s.prev[n] ELSE NULL

\* storage a make_shared can use
FreeNodes(s) == Nodes \ s.live

NewNode(s) == CHOOSE n \in FreeNodes(s) : \A m \in FreeNodes(s) : n <= m

\* DListNode constructor
MakeNode(s, n, x, p, nx) ==
    [s EXCEPT !.item[n] = x, !.prev[n] = p, !.next[n] = nx,
              !.live = @ \cup {n}]

\* use counts if _prev were a shared_ptr too: a node named by the _prev of
\* a live node is owned
unownedStrongPrev(s, roots) ==
    {n \in s.live : n \notin roots
                    /\ \A m \in s.live : s.next[m] # n /\ s.prev[m] # n}

\* nodes of s.live that hold no strong reference: not a root, not the
\* _next of a live node
Unowned(s, roots) ==
    {n \in s.live : n \notin roots /\ \A m \in s.live : s.next[m] # n}

RECURSIVE Drop(_, _)
\* shared_ptr reference counting: destroy every node whose count is zero,
\* which releases its _next and may destroy the successor in turn; a
\* weak_ptr to a destroyed node is expired from then on
Drop(s, roots) ==
    LET dead == Unowned(s, roots) IN
    IF dead = {} THEN s
    ELSE Drop([s EXCEPT
                 !.live = @ \ dead,
                 !.item = [n \in Nodes |-> IF n \in dead THEN DefaultItem ELSE @[n]],
                 !.next = [n \in Nodes |-> IF n \in dead THEN NULL ELSE @[n]],
                 !.prev = [n \in Nodes |-> IF n \in dead THEN NULL
                                           ELSE IF @[n] \in dead THEN Expired
                                           ELSE @[n]]],
              roots)

\* the strong references held outside the nodes: every list's _head and _tail
Roots(s) == {s.head[l] : l \in Lists} \cup {s.tail[l] : l \in Lists}

\* ------------------------------------------------------------ observers
RECURSIVE FwdWalk(_, _, _)
\* the nodes met following _next from n until nullptr (at most k of them)
FwdWalk(s, n, k) ==
    IF n = NULL \/ k = 0 THEN <<>>
    ELSE <<n>> \o FwdWalk(s, s.next[n], k - 1)

RECURSIVE BwdWalk(_, _, _)
\* the nodes met following _prev.lock() from n until nullptr (at most k)
BwdWalk(s, n, k) ==
    IF n = NULL \/ k = 0 THEN <<>>
    ELSE <<n>> \o BwdWalk(s, Lock(s, n), k - 1)

FwdNodes(s, l) == FwdWalk(s, s.head[l], MaxNodes + 1)
BwdNodes(s, l) == BwdWalk(s, s.tail[l], MaxNodes + 1)

\* the element sequence of list l, first to last
Contents(s, l) ==
    LET ns == FwdNodes(s, l) IN [i \in 1..Len(ns) |-> s.item[ns[i]]]

\* ------------------------------------------------------------ addresses
\* The program never compares or orders node addresses, so which free
\* address make_shared hands out cannot be observed.  The model names the
\* live nodes 1..k in chain order (list 1 from its head, then list 2, then
\* any live node on neither chain) after every step that allocates or
\* destroys nodes.
RECURSIVE Distinct(_, _)
Distinct(sq, acc) ==
    IF sq = <<>> THEN acc
    ELSE IF \E i \in 1..Len(acc) : acc[i] = Head(sq)
         THEN Distinct(Tail(sq), acc)
         ELSE Distinct(Tail(sq), Append(acc, Head(sq)))

RECURSIVE Ascending(_)
Ascending(S) ==
    IF S = {} THEN <<>>
    ELSE LET m == CHOOSE n \in S : \A k \in S : n <= k
         IN  <<m>> \o Ascending(S \ {m})

ChainOrder(s) ==
    Distinct(SelectSeq(FwdNodes(s, 1) \o FwdNodes(s, 2), LAMBDA n : n \in s.live)
               \o Ascending(s.live), <<>>)

\* the name node n gets when the live nodes are named in the order ord
NewName(ord, n) ==
    IF \E i \in 1..Len(ord) : ord[i] = n
    THEN CHOOSE i \in 1..Len(ord) : ord[i] = n
    ELSE n

Renamed(s, ord) ==
    LET k == Len(ord) IN
    [item |-> [i \in Nodes |-> IF i <= k THEN s.item[ord[i]] ELSE DefaultItem],
     next |-> [i \in Nodes |-> IF i <= k THEN NewName(ord, s.next[ord[i]]) ELSE NULL],
     prev |-> [i \in Nodes |-> IF i <= k THEN NewName(ord, s.prev[ord[i]]) ELSE NULL],
     live |-> 1..k,
     head |-> [l \in Lists |-> NewName(ord, s.head[l])],
     tail |-> [l \in Lists |-> NewName(ord, s.tail[l])],
     size |-> s.size]

\* what is left when every shared_ptr local of a finished call is gone
Release(s) ==
    LET d == Drop(s, Roots(s)) IN Renamed(d, ChainOrder(d))

\* ------------------------------------------------------------ operations
\* void clear()
clear(s, l) ==
    Release([s EXCEPT !.head[l] = NULL, !.tail[l] = NULL, !.size[l] = 0])

\* append that forgets _size++
appendNoCount(s, l, x) ==
    LET newNode == NewNode(s)
        s1 == MakeNode(s, newNode, x, NULL, NULL)
    IN  IF s1.size[l] = 0
        THEN [s1 EXCEPT !.head[l] = newNode, !.tail[l] = newNode]
        ELSE [s1 EXCEPT !.next[s1.tail[l]] = newNode,
                        !.prev[newNode] = s1.tail[l],
                        !.tail[l] = newNode]

\* void append(const ItemType& x)
append(s, l, x) ==
    LET newNode == NewNode(s)
        s1 == MakeNode(s, newNode, x, NULL, NULL)
    IN  IF s1.size[l] = 0
        THEN [s1 EXCEPT !.head[l] = newNode, !.tail[l] = newNode,
                        !.size[l] = @ + 1]
        ELSE [s1 EXCEPT !.next[s1.tail[l]] = newNode,
                        !.prev[newNode] = s1.tail[l],
                        !.tail[l] = newNode,
                        !.size[l] = @ + 1]

RECURSIVE WalkNext(_, _, _)
\* for (i = 0; i < position; i++) current = current->_next;
WalkNext(s, current, k) ==
    IF k <= 0 THEN current ELSE WalkNext(s, s.next[current], k - 1)

RECURSIVE WalkPrev(_, _, _)
\* for (i = -1; i > position; i--) current = current->_prev.lock();
WalkPrev(s, current, k) ==
    IF k <= 0 THEN current ELSE WalkPrev(s, Lock(s, current), k - 1)

\* _find that counts a negative position from the head instead of the tail
findFromHead(s, l, position) ==
    IF position >= s.size[l] \/ position < 0 - s.size[l] THEN NULL
    ELSE IF position >= 0 THEN WalkNext(s, s.head[l], position)
    ELSE WalkNext(s, s.head[l], (0 - 1) - position)

\* shared_ptr<DListNode> _find(long position) const
_find(s, l, position) ==
    IF position >= s.size[l] \/ position < 0 - s.size[l] THEN NULL
    ELSE IF position >= 0 THEN WalkNext(s, s.head[l], position)
    ELSE WalkPrev(s, s.tail[l], (0 - 1) - position)

\* insert's adjustments without position += _size
insertPositionNoShift(s, l, position) ==
    LET p2 == IF position < 0 THEN 0 ELSE position
    IN  IF p2 > s.size[l] THEN s.size[l] ELSE p2

\* the position insert() works with after its three adjustments
InsertPosition(s, l, position) ==
    LET p1 == IF position < 0 THEN position + s.size[l] ELSE position
        p2 == IF p1 < 0 THEN 0 ELSE p1
    IN  IF p2 > s.size[l] THEN s.size[l] ELSE p2

\* void insert(long position, const ItemType& x)
insert(s, l, position, x) ==
    LET p == InsertPosition(s, l, position) IN
    IF s.size[l] = 0 \/ p = s.size[l] THEN append(s, l, x)
    ELSE LET current == _find(s, l, p)
             previous == Lock(s, current)
             newNode == NewNode(s)
             s1 == MakeNode(s, newNode, x, previous, current)
             s2 == IF previous # NULL
                   THEN [s1 EXCEPT !.next[previous] = newNode]
                   ELSE [s1 EXCEPT !.head[l] = newNode]
         IN  [s2 EXCEPT !.prev[current] = newNode, !.size[l] = @ + 1]

\* the unlink steps without _tail = previous when the last node goes
unlinkKeepsTail(s, l, current) ==
    LET previous == Lock(s, current)
        nxt == s.next[current]
        s1 == IF previous # NULL
              THEN [s EXCEPT !.next[previous] = nxt]
              ELSE [s EXCEPT !.head[l] = nxt]
        s2 == IF nxt # NULL
              THEN [s1 EXCEPT !.prev[nxt] = previous]
              ELSE s1
    IN  [s2 EXCEPT !.size[l] = @ - 1]

\* the unlink steps without next->_prev = previous
unlinkKeepsBackLink(s, l, current) ==
    LET previous == Lock(s, current)
        nxt == s.next[current]
        s1 == IF previous # NULL
              THEN [s EXCEPT !.next[previous] = nxt]
              ELSE [s EXCEPT !.head[l] = nxt]
        s2 == IF nxt # NULL
              THEN s1
              ELSE [s1 EXCEPT !.tail[l] = previous]
    IN  [s2 EXCEPT !.size[l] = @ - 1]

\* the unlink steps shared by _delete and remove
Unlink(s, l, current) ==
    LET previous == Lock(s, current)
        nxt == s.next[current]
        s1 == IF previous # NULL
              THEN [s EXCEPT !.next[previous] = nxt]
              ELSE [s EXCEPT !.head[l] = nxt]
        s2 == IF nxt # NULL
              THEN [s1 EXCEPT !.prev[nxt] = previous]
              ELSE [s1 EXCEPT !.tail[l] = previous]
    IN  [s2 EXCEPT !.size[l] = @ - 1]

\* _delete without position += _size: a negative position is invalid
deleteNoNegative(s, l, position) ==
    IF position < 0 \/ position >= s.size[l]
    THEN [st |-> s, ret |-> DefaultItem]
    ELSE LET current == _find(s, l, position) IN
         [st |-> Unlink(s, l, current), ret |-> s.item[current]]

\* _delete that clamps a position before the front to 0, as insert does
deleteClamps(s, l, position) ==
    LET p1 == IF position < 0 THEN position + s.size[l] ELSE position
        p == IF p1 < 0 THEN 0 ELSE p1
    IN  IF p >= s.size[l]
        THEN [st |-> s, ret |-> DefaultItem]
        ELSE LET current == _find(s, l, p) IN
             [st |-> Unlink(s, l, current), ret |-> s.item[current]]

\* ItemType _delete(long position): the new state and the value returned
_delete(s, l, position) ==
    LET p == IF position < 0 THEN position + s.size[l] ELSE position IN
    IF p < 0 \/ p >= s.size[l]
    THEN [st |-> s, ret |-> DefaultItem]
    ELSE LET current == _find(s, l, p) IN
         [st |-> Unlink(s, l, current), ret |-> s.item[current]]

\* ItemType pop(long position = -1)
pop(s, l, position) == _delete(s, l, position)

RECURSIVE removeEveryLoop(_, _, _, _)
\* remove's loop without the return after the first match
removeEveryLoop(s, l, node, x) ==
    IF node = NULL THEN s
    ELSE IF s.item[node] = x
         THEN removeEveryLoop(Unlink(s, l, node), l, s.next[node], x)
         ELSE removeEveryLoop(s, l, s.next[node], x)

RECURSIVE RemoveLoop(_, _, _, _)
\* while (node != nullptr) of remove
RemoveLoop(s, l, node, x) ==
    IF node = NULL THEN s
    ELSE IF s.item[node] = x THEN Unlink(s, l, node)
    ELSE RemoveLoop(s, l, s.next[node], x)

\* void remove(ItemType x)
remove(s, l, x) == RemoveLoop(s, l, s.head[l], x)

RECURSIVE IndexLoop(_, _, _, _)
\* while (node != nullptr) of index; return -1 converts to size_t
IndexLoop(s, node, x, idx) ==
    IF node = NULL THEN ToSizeT(0 - 1)
    ELSE IF s.item[node] = x THEN idx
    ELSE IndexLoop(s, s.next[node], x, ToSizeT(idx + 1))

\* index that counts from the node found instead of from start
indexFromZero(s, l, x, start) == IndexLoop(s, _find(s, l, ToLong(start)), x, 0)

\* size_t index(ItemType x, size_t start = 0) const
index(s, l, x, start) == IndexLoop(s, _find(s, l, ToLong(start)), x, start)

RECURSIVE CountLoop(_, _, _)
CountLoop(s, node, x) ==
    IF node = NULL THEN 0
    ELSE (IF s.item[node] = x THEN 1 ELSE 0) + CountLoop(s, s.next[node], x)

\* int count(ItemType x) const
count(s, l, x) == CountLoop(s, s.head[l], x)

RECURSIVE CopyLoop(_, _, _, _)
\* while (sourceNode) of _copy, then _tail = newNode
CopyLoop(s, l, sourceNode, newNode) ==
    IF sourceNode = NULL THEN [s EXCEPT !.tail[l] = newNode]
    ELSE LET n == NewNode(s)
             s1 == MakeNode(s, n, s.item[sourceNode], newNode, NULL)
             s2 == [s1 EXCEPT !.next[newNode] = n]
         IN  CopyLoop(s2, l, s.next[sourceNode], n)

\* _copy that takes over the source's nodes instead of making new ones
copyShallow(s, l, source) ==
    [s EXCEPT !.head[l] = s.head[source], !.tail[l] = s.tail[source],
              !.size[l] = s.size[source]]

\* void _copy(const DList& source)
_copy(s, l, source) ==
    LET sourceNode == s.head[source]
        s1 == IF sourceNode # NULL
              THEN LET n == NewNode(s) IN
                   [MakeNode(s, n, s.item[sourceNode], NULL, NULL)
                       EXCEPT !.head[l] = n]
              ELSE [s EXCEPT !.head[l] = NULL]
        s2 == IF sourceNode # NULL
              THEN CopyLoop(s1, l, s.next[sourceNode], s1.head[l])
              ELSE CopyLoop(s1, l, NULL, NULL)
    IN  [s2 EXCEPT !.size[l] = s.size[source]]

\* operator= without the this != &source test
assignNoSelfTest(s, l, source) == _copy(clear(s, l), l, source)

\* DList& operator=(const DList& source)
operatorAssign(s, l, source) ==
    IF l # source THEN _copy(clear(s, l), l, source) ELSE s

\* ~DList() of the old object, then DList(const DList& source) in its place
CopyConstruct(s, l, source) ==
    _copy(Release([s EXCEPT !.head[l] = NULL, !.tail[l] = NULL]), l, source)

\* ItemType& operator[](long position): the write through the reference
SetItem(s, l, position, x) == [s EXCEPT !.item[_find(s, l, position)] = x]

\* ItemType operator[](long position) const
GetItem(s, l, position) == s.item[_find(s, l, position)]

\* --------------------------------------------------------------- client
NoCall == [name |-> "none", l |-> 0, other |-> 0, pos |-> 0, x |-> 0, ret |-> 0]
NoExt == [node |-> NULL, i |-> 0, n |-> 0, pre |-> <<>>, preOther |-> <<>>]

Call(name, l, other, pos, x, ret) ==
    [name |-> name, l |-> l, other |-> other, pos |-> pos, x |-> x, ret |-> ret]

\* -------------------------------------------------------------- DList()
Init ==
    /\ item = [n \in Nodes |-> DefaultItem]
    /\ next = [n \in Nodes |-> NULL]
    /\ prev = [n \in Nodes |-> NULL]
    /\ live = {}
    /\ head = [l \in Lists |-> NULL]
    /\ tail = [l \in Lists |-> NULL]
    /\ size = [l \in Lists |-> 0]
    /\ pc = "idle"
    /\ op = NoCall
    /\ ext = NoExt

SetState(t) ==
    /\ item' = t.item
    /\ next' = t.next
    /\ prev' = t.prev
    /\ live' = t.live
    /\ head' = t.head
    /\ tail' = t.tail
    /\ size' = t.size

\* a call that runs to completion: new heap, recorded call and result
Completes(t, call) ==
    /\ SetState(Release(t))
    /\ op' = call
    /\ pc' = "done"
    /\ UNCHANGED ext

DoLength(l) ==
    /\ pc = "idle"
    /\ Completes(St, Call("length", l, 0, 0, 0, size[l]))

DoClear(l) ==
    /\ pc = "idle"
    /\ Completes(clear(St, l), Call("clear", l, 0, 0, 0, 0))

DoAppend(l, x) ==
    /\ pc = "idle"
    /\ FreeNodes(St) # {}
    /\ Completes(append(St, l, x), Call("append", l, 0, 0, x, 0))

DoInsert(l, p, x) ==
    /\ pc = "idle"
    /\ FreeNodes(St) # {}
    /\ Completes(insert(St, l, p, x), Call("insert", l, 0, p, x, 0))

DoPop(l, p) ==
    /\ pc = "idle"
    /\ LET r == pop(St, l, p) IN
       Completes(r.st, Call("pop", l, 0, p, 0, r.ret))

DoRemove(l, x) ==
    /\ pc = "idle"
    /\ Completes(remove(St, l, x), Call("remove", l, 0, 0, x, 0))

DoIndex(l, x, start) ==
    /\ pc = "idle"
    /\ Completes(St, Call("index", l, 0, start, x, index(St, l, x, start)))

DoCount(l, x) ==
    /\ pc = "idle"
    /\ Completes(St, Call("count", l, 0, 0, x, count(St, l, x)))

DoGet(l, p) ==
    /\ pc = "idle"
    /\ _find(St, l, p) # NULL
    /\ Completes(St, Call("get", l, 0, p, 0, GetItem(St, l, p)))

DoSet(l, p, x) ==
    /\ pc = "idle"
    /\ _find(St, l, p) # NULL
    /\ Completes(SetItem(St, l, p, x), Call("set", l, 0, p, x, 0))

\* operator[] with a position _find does not resolve dereferences nullptr:
\* the run ends there
BracketFault(l, p) ==
    /\ pc = "idle"
    /\ _find(St, l, p) = NULL
    /\ pc' = "crashed"
    /\ op' = Call("get", l, 0, p, 0, 0)
    /\ UNCHANGED <<heapvars, ext>>

DoCopyConstruct(l, source) ==
    /\ pc = "idle"
    /\ l # source
    /\ Cardinality(FreeNodes(clear(St, l))) >= size[source]
    /\ Completes(CopyConstruct(St, l, source), Call("copy", l, source, 0, 0, 0))

DoAssign(l, source) ==
    /\ pc = "idle"
    /\ l = source \/ Cardinality(FreeNodes(clear(St, l))) >= size[source]
    /\ Completes(operatorAssign(St, l, source), Call("assign", l, source, 0, 0, 0))

\* void extend(const DList& otherList): entry, one loop iteration, return
ExtendCall(l, other) ==
    /\ pc = "idle"
    /\ Cardinality(FreeNodes(St)) >= size[other]
    /\ pc' = "extend"
    /\ op' = Call("extend", l, other, 0, 0, 0)
    /\ ext' = [node |-> head[other], i |-> 0,
               n |-> IF other = l THEN size[l] ELSE 0,
               pre |-> Contents(St, l), preOther |-> Contents(St, other)]
    /\ UNCHANGED heapvars

\* extend without the self-extension branch: always node != nullptr
extendChases(l, other, e) == e.node # NULL

\* the loop condition: i < n for self-extension, node != nullptr otherwise
extendContinues(l, other, e) ==
    IF other = l THEN e.i < e.n ELSE e.node # NULL

ExtendStep ==
    /\ pc = "extend"
    /\ extendContinues(op.l, op.other, ext)
    /\ FreeNodes(St) # {}
    /\ LET s1 == append(St, op.l, item[ext.node])
           ord == ChainOrder(s1)
       IN  /\ SetState(Renamed(s1, ord))
           /\ ext' = [ext EXCEPT !.node = NewName(ord, s1.next[ext.node]),
                                 !.i = IF op.other = op.l THEN @ + 1 ELSE @]
    /\ UNCHANGED <<pc, op>>

ExtendReturn ==
    /\ pc = "extend"
    /\ ~extendContinues(op.l, op.other, ext)
    /\ pc' = "done"
    /\ ext' = [ext EXCEPT !.node = NULL]
    /\ UNCHANGED <<heapvars, op>>

\* the client drops the result and is ready for its next call
Return ==
    /\ pc = "done"
    /\ pc' = "idle"
    /\ op' = NoCall
    /\ ext' = NoExt
    /\ UNCHANGED heapvars

Next ==
    \/ \E l \in Lists : DoLength(l)
    \/ \E l \in Lists : DoClear(l)
    \/ \E l \in Lists, x \in Values : DoAppend(l, x)
    \/ \E l \in Lists, p \in PosInputs, x \in Values : DoInsert(l, p, x)
    \/ \E l \in Lists, p \in PosInputs : DoPop(l, p)
    \/ \E l \in Lists, x \in Values : DoRemove(l, x)
    \/ \E l \in Lists, x \in Values, start \in StartInputs : DoIndex(l, x, start)
    \/ \E l \in Lists, x \in Values : DoCount(l, x)
    \/ \E l \in Lists, p \in PosInputs : DoGet(l, p)
    \/ \E l \in Lists, p \in PosInputs, x \in Values : DoSet(l, p, x)
    \/ \E l \in Lists, p \in PosInputs : BracketFault(l, p)
    \/ \E l \in Lists, source \in Lists : DoCopyConstruct(l, source)
    \/ \E l \in Lists, source \in Lists : DoAssign(l, source)
    \/ \E l \in Lists, other \in Lists : ExtendCall(l, other)
    \/ ExtendStep
    \/ ExtendReturn
    \/ Return

Spec == Init /\ [][Next]_vars

\* ================================================================ claims
\* the heap and lists after the step
StNext == [item |-> item', next |-> next', prev |-> prev', live |-> live',
           head |-> head', tail |-> tail', size |-> size']

\* sequence c with x put in front of 0-based index q
InsertAt(c, q, x) == SubSeq(c, 1, q) \o <<x>> \o SubSeq(c, q + 1, Len(c))

\* sequence c without its element at 0-based index q
RemoveAt(c, q) == SubSeq(c, 1, q) \o SubSeq(c, q + 2, Len(c))

\* a signed position counted from the front
FromFront(p, n) == IF p >= 0 THEN p ELSE p + n

\* FromFront, then clamped into 0..n
Clamped(p, n) ==
    LET q == FromFront(p, n) IN IF q < 0 THEN 0 ELSE IF q > n THEN n ELSE q

\* the step runs a call of method name from entry to return
Completed(name) == pc = "idle" /\ pc' = "done" /\ op'.name = name

\* C1: length() equals the number of nodes met walking _next from head to
\* nullptr and the number met walking _prev from tail to nullptr, and is
\* never negative.
C1_LengthIsChainLength ==
    /\ \A l \in Lists :
         /\ size[l] >= 0
         /\ size[l] = Len(FwdNodes(St, l))
         /\ size[l] = Len(BwdNodes(St, l))
    /\ (pc = "done" /\ op.name = "length") => op.ret = size[op.l]

C1_Witness ==
    /\ pc = "done" /\ op.name = "length" /\ op.ret = 3
    /\ size[3 - op.l] = 1

\* C2: with n elements e0..e(n-1) in forward order, [i] returns ei and
\* [i-n] returns the same ei, for every 0 <= i < n.
C2_IndexedAccess ==
    /\ \A l \in Lists :
         LET c == Contents(St, l) IN
         \A i \in 0..(size[l] - 1) :
            /\ GetItem(St, l, i) = c[i + 1]
            /\ GetItem(St, l, i - size[l]) = c[i + 1]
    /\ (pc = "done" /\ op.name = "get") =>
         op.ret = Contents(St, op.l)[FromFront(op.pos, size[op.l]) + 1]

C2_Witness ==
    /\ pc = "done" /\ op.name = "get" /\ op.pos = 0 - 3 /\ op.ret = 1
    /\ Contents(St, op.l) = <<1, 0, 0>>

\* C3: insert(p, x) puts x at index q of the previous sequence, q being p
\* (p + size when p is negative) clamped into 0..size; the other elements
\* keep their order, size grows by one; positions past the end act as
\* append(x), positions before -size as insert(0, x).
C3_InsertClamps ==
    [][Completed("insert") =>
         LET l == op'.l
             p == op'.pos
             x == op'.x
         IN  /\ Contents(StNext, l) =
                  InsertAt(Contents(St, l), Clamped(p, size[l]), x)
             /\ size'[l] = size[l] + 1
             /\ p > size[l] =>
                  Contents(StNext, l) = Contents(append(St, l, x), l)
             /\ p < 0 - size[l] =>
                  Contents(StNext, l) = Contents(insert(St, l, 0, x), l)]_vars

C3_Witness ==
    /\ pc = "done" /\ op.name = "insert" /\ op.pos = 0 - 2 /\ op.x = 1
    /\ Contents(St, op.l) = <<0, 1, 0, 0>>

\* C4: on a non-empty list, pop(p) with -size <= p < size returns what [p]
\* returned before the call and leaves the previous sequence without
\* exactly that element; pop(-1) is the last element.
C4_PopInRange ==
    [][(Completed("pop") /\ 0 - size[op'.l] <= op'.pos
                         /\ op'.pos < size[op'.l]) =>
         LET l == op'.l
             p == op'.pos
             r == op'.ret
         IN  /\ r = GetItem(St, l, p)
             /\ r = Contents(St, l)[FromFront(p, size[l]) + 1]
             /\ Contents(StNext, l) =
                  RemoveAt(Contents(St, l), FromFront(p, size[l]))
             /\ size'[l] = size[l] - 1
             /\ p = 0 - 1 => /\ r = Contents(St, l)[size[l]]
                             /\ Contents(StNext, l) =
                                  SubSeq(Contents(St, l), 1, size[l] - 1)]_vars

C4_Witness ==
    /\ pc = "done" /\ op.name = "pop" /\ op.pos = 0 - 2 /\ op.ret = 1
    /\ Contents(St, op.l) = <<0, 0>>

\* C5: pop(p) with p >= size or p < -size returns ItemType{} and leaves
\* size, head, tail, the elements and every link as they were.
C5_PopOutOfRange ==
    [][(Completed("pop") /\ (op'.pos >= size[op'.l]
                             \/ op'.pos < 0 - size[op'.l])) =>
         /\ op'.ret = DefaultItem
         /\ UNCHANGED heapvars]_vars

C5_Witness ==
    /\ pc = "done" /\ op.name = "pop" /\ op.pos = 0 - 3 /\ op.ret = DefaultItem
    /\ Contents(St, op.l) = <<1, 1>>

\* the 0-based indices of c at or after from that hold x
Occurrences(c, x, from) == {q \in 0..(Len(c) - 1) : q >= from /\ c[q + 1] = x}

\* the least element of a non-empty set of numbers
Least(S) == CHOOSE q \in S : \A r \in S : q <= r

\* how many elements of c equal x
Copies(c, x) == Cardinality(Occurrences(c, x, 0))

\* C6: remove(x) deletes exactly the occurrence of x at the smallest
\* position (size and count(x) go down by one, everything else keeps its
\* order); when x does not occur, size, elements, head, tail and links stay.
C6_RemoveFirst ==
    [][Completed("remove") =>
         LET l == op'.l
             x == op'.x
             c == Contents(St, l)
         IN  IF Occurrences(c, x, 0) # {}
             THEN /\ Contents(StNext, l) = RemoveAt(c, Least(Occurrences(c, x, 0)))
                  /\ size'[l] = size[l] - 1
                  /\ count(StNext, l, x) = count(St, l, x) - 1
                  /\ count(St, l, x) = Copies(c, x)
             ELSE UNCHANGED heapvars]_vars

C6_Witness ==
    /\ pc = "done" /\ op.name = "remove" /\ op.x = 1
    /\ Contents(St, op.l) = <<0, 0, 1>>

\* C7: extend(other) returns after as many appends as other had elements
\* and leaves this = its previous sequence followed by other's previous
\* sequence; a distinct other is unchanged; self-extension of n elements
\* makes exactly n appends and yields the original contents twice.
C7_Extend ==
    /\ pc = "extend" =>
         Len(Contents(St, op.l)) - Len(ext.pre) <= Len(ext.preOther)
    /\ (pc = "done" /\ op.name = "extend") =>
         /\ Contents(St, op.l) = ext.pre \o ext.preOther
         /\ size[op.l] = Len(ext.pre) + Len(ext.preOther)
         /\ op.other # op.l => Contents(St, op.other) = ext.preOther
         /\ op.other = op.l => /\ ext.preOther = ext.pre
                               /\ ext.i = Len(ext.pre)

C7_Witness ==
    /\ pc = "done" /\ op.name = "extend" /\ op.other = op.l
    /\ Contents(St, op.l) = <<1, 0, 1, 0>>

\* the nodes on list l's chain
ChainSet(s, l) == {FwdNodes(s, l)[i] : i \in 1..Len(FwdNodes(s, l))}

\* every public method that can change a list
Mutators == {"set", "clear", "append", "insert", "pop", "remove", "extend",
             "copy", "assign"}

\* C8: a copy has the source's length and elements in order and shares no
\* node with it; a mutation of either list afterwards leaves the other
\* list's elements and length as they were.
C8_CopyIndependent ==
    [][/\ (Completed("copy") \/ (Completed("assign") /\ op'.l # op'.other)) =>
            /\ Contents(StNext, op'.l) = Contents(St, op'.other)
            /\ size'[op'.l] = size[op'.other]
            /\ ChainSet(StNext, op'.l) \cap ChainSet(StNext, op'.other) = {}
       /\ ChainSet(StNext, 1) \cap ChainSet(StNext, 2) = {}
       /\ op'.name \in Mutators =>
            \A b \in Lists \ {op'.l} :
               /\ Contents(StNext, b) = Contents(St, b)
               /\ size'[b] = size[b]]_vars

C8_Witness ==
    /\ pc = "done" /\ op.name = "set" /\ op.pos = 1 /\ op.x = 1
    /\ Contents(St, op.l) = <<0, 1>>
    /\ Contents(St, 3 - op.l) = <<0, 0>>

\* C9: D = S leaves D with the sequence S had and S unchanged, whatever D
\* held; D = D changes nothing: contents, length, head, tail.
C9_Assignment ==
    [][Completed("assign") =>
         LET d == op'.l
             src == op'.other
         IN  IF d # src
             THEN /\ Contents(StNext, d) = Contents(St, src)
                  /\ size'[d] = size[src]
                  /\ Contents(StNext, src) = Contents(St, src)
                  /\ size'[src] = size[src]
             ELSE UNCHANGED heapvars]_vars

C9_Witness ==
    /\ pc = "done" /\ op.name = "assign" /\ op.other = op.l
    /\ Contents(St, op.l) = <<1, 1, 1>>

\* C10: for 0 <= start <= LONG_MAX, index(x, start) returns the smallest
\* position p with start <= p < size holding x, and (size_t)-1 when there
\* is none; the list is not modified.
C10_IndexFromStart ==
    [][(Completed("index") /\ op'.pos <= LONG_MAX) =>
         LET l == op'.l
             x == op'.x
             start == op'.pos
             hits == Occurrences(Contents(St, l), x, start)
         IN  /\ op'.ret = IF hits # {} THEN Least(hits) ELSE SIZE_MAX
             /\ UNCHANGED heapvars]_vars

C10_Witness ==
    /\ pc = "done" /\ op.name = "index" /\ op.x = 1 /\ op.pos = 1 /\ op.ret = 2
    /\ Contents(St, op.l) = <<1, 0, 1, 0>>

\* C11: size == 0 iff head is empty iff tail is empty; when size > 0,
\* following _next from head exactly size times reaches nullptr, the node
\* reached after size - 1 steps is tail, and tail's _next is nullptr.
C11_HeadTailSize ==
    \A l \in Lists :
       LET ns == FwdNodes(St, l) IN
       /\ (size[l] = 0) <=> (head[l] = NULL)
       /\ (size[l] = 0) <=> (tail[l] = NULL)
       /\ size[l] > 0 => /\ Len(ns) = size[l]
                         /\ ns[size[l]] = tail[l]
                         /\ next[tail[l]] = NULL

C11_Witness ==
    /\ pc = "done" /\ op.name = "remove" /\ op.x = 1
    /\ Contents(St, op.l) = <<0, 1>>
    /\ size[3 - op.l] = 0 /\ tail[op.l] = 2

\* C12: for nodes A and B of a chain, A's _next is B iff B's _prev is A;
\* the head node's _prev is empty; no chain node's _prev names a node that
\* is not on the chain.
C12_LinksAgree ==
    \A l \in Lists :
       LET chain == ChainSet(St, l) IN
       /\ \A a \in chain : \A b \in chain : (next[a] = b) <=> (prev[b] = a)
       /\ head[l] # NULL => prev[head[l]] = NULL
       /\ \A n \in chain : prev[n] \in chain \cup {NULL}

C12_Witness ==
    /\ pc = "done" /\ op.name = "pop" /\ op.pos = 1 /\ op.ret = 1
    /\ Contents(St, op.l) = <<0, 0, 0>>
    /\ prev[3] = 2

\* C13: for every size_t start, index(x, start) returns either (size_t)-1
\* or a position p with 0 <= p < size whose element equals x.
C13_IndexResultRange ==
    (pc = "done" /\ op.name = "index") =>
       \/ op.ret = SIZE_MAX
       \/ /\ 0 <= op.ret /\ op.ret < size[op.l]
          /\ Contents(St, op.l)[op.ret + 1] = op.x

\* C14: counting owning references only (head, tail, the _next of a node
\* kept alive), the nodes alive after a completed call are exactly the
\* nodes on the chains from the heads: unlinked and dropped nodes are
\* released, and following _next from any live node ends at nullptr.
C14_AliveIsChain ==
    pc \in {"idle", "done"} =>
       /\ live = ChainSet(St, 1) \cup ChainSet(St, 2)
       /\ Cardinality(live) = size[1] + size[2]
       /\ \A n \in live : Len(FwdWalk(St, n, MaxNodes + 1)) <= MaxNodes

C14_Witness ==
    /\ pc = "done" /\ op.name = "pop" /\ op.pos = 1 /\ op.ret = 1
    /\ Contents(St, op.l) = <<0, 0>>
    /\ Contents(St, 3 - op.l) = <<1>>
    /\ live = 1..3

====
